---- MODULE Spec2Model ----
(***************************************************************************)
(* clarify-svc: the service programs that supervise the Clarify workload.  *)
(*                                                                         *)
(* Two families of programs are modelled, each at the granularity of one   *)
(* Go statement that touches shared state (a channel, a ticker, a remote   *)
(* call, os.Exit):                                                         *)
(*                                                                         *)
(*  - the lifecycle coordinator (`program` in cmd/clarify): Start, Stop,   *)
(*    run, waitForInstall, pollJob, node, disableDrain, launchClarify.     *)
(*    The repository holds two versions of it:                             *)
(*      "part_000"   src/unnamed/part_000        (Stop closes p.exit,      *)
(*                   pollJob closes `stopped`, run calls p.svc.Stop())     *)
(*      "clarifysvc" src/cmd/clarify/clarifysvc.go (Stop sends on p.exit,  *)
(*                   pollJob sends on `stopped`, run calls os.Exit(1))     *)
(*                                                                         *)
(*  - the process supervisor (`consul` / `nomad` in cmd/consul, cmd/nomad) *)
(*    that owns one child OS process: Start, Stop, run, wait. Two versions:*)
(*      "consulsvc"     src/cmd/consul/consulsvc.go, and the same code for *)
(*                      nomad in src/cmd/nomad/nomadsvc.go and             *)
(*                      src/unnamed/part_001 (Stop closes p.exit, run      *)
(*                      selects on the child's exit and on p.exit)         *)
(*      "clarifyconsul" src/cmd/consul/clarifyconsulsvc.go (no p.exit: run *)
(*                      waits for the child's exit alone)                  *)
(*                                                                         *)
(*  - the two-process supervisor (`clarify` in cmd/clarify):                *)
(*      "clarifysvc_all" src/cmd/clarify/clarifysvc_all.go (run starts     *)
(*                      consul and nomad and watches both through one      *)
(*                      channel `done` of capacity 1). It has a            *)
(*                      specification of its own, ClarifyAllSpec.          *)
(*                                                                         *)
(* The variable `variant` says which program is running; a behaviour is    *)
(* one run of one service process.                                         *)
(***************************************************************************)
EXTENDS Integers, FiniteSets, Sequences, TLC

\* Number of ticks each time.Ticker may deliver in one run.
MaxTicks == 2

VARIABLES
    \* ---- lifecycle coordinator ----
    variant,        \* which program is running
    proc,           \* the service process: "running", "exit0", "exit1", "panic"
    install,        \* the install directory: "absent", "present", "inaccessible"
    jobPresent,     \* remote: the scheduler has the job "clarify"
    nodeDrain,      \* remote: the Drain flag of this node
    runPc,          \* position of the goroutine running program.run
    waitPc,         \* position of the goroutine started by waitForInstall
    pollPc,         \* position of the goroutine started by pollJob
    stopPc,         \* position of the goroutine running program.Stop
    wTickerOn,      \* waitForInstall's ticker is running
    wTickBuf,       \* ticks buffered in that ticker's channel (capacity 1)
    pTickerOn,      \* pollJob's ticker is running
    pTickBuf,       \* ticks buffered in that ticker's channel (capacity 1)
    exitCloses,     \* number of close(p.exit) executed
    stoppedCloses,  \* number of close(stopped) executed
    doneClosed,     \* clarifysvc: close(done) was executed
    foundState,     \* channel `found`: "none", "open", "closed"
    extStop,        \* the service manager was asked to stop the service
    svcStopReq,     \* run called p.svc.Stop()
    stopResult,     \* what program.Stop returned: "none", "nil", "err"
    \* ---- observations of the coordinator's run (history) ----
    wfiResult,      \* what waitForInstall returned: "none", "true", "false"
    wTicks,         \* ticks produced by waitForInstall's ticker
    pTicks,         \* ticks produced by pollJob's ticker
    fires,          \* completed deliveries of the terminal signal `stopped`
    phases,         \* coordinator states the run went through
    disc,           \* FindJob at discovery: "none", "found", "missing"
    discDrain,      \* node.Drain at discovery: "unknown", "drained", "undrained"
    drainCalls,     \* the Drain calls issued: a set of <<enable, outcome>>
    stopPhase,      \* coordinator state when program.Stop was invoked
    lastJob,        \* pollJob's last FindJob result: "none", "found", "notfound"
    lastHost,       \* pollJob's last HostID result: "none", "ok", "drained", "err"
    firstStat,      \* waitForInstall's first check: "none", "found", "notfound"
    runLookups,     \* calls of node() made by run
    cancelAbsent,   \* the stop signal was given to a waiting waitForInstall
                    \* while the install directory was absent
    foundSends,     \* completed sends on `found`
    envFault,       \* a liveness check failed, or the environment removed the
                    \* job or drained the node (anything but Stop's own drain)
    lookupFail,     \* where node() had no node to return: a subset of
                    \* {"ReconcilingDrain", "Draining"}
    launchOutcome,  \* SubmitJob at launch: "none", "ok", "non200", "err"
    jobChecks,      \* FindJob calls made by the poller
    hostChecks,     \* HostID calls made by the poller
    \* ---- process supervisor ----
    platform,       \* runtime.GOOS: "windows" or "posix"
    cmdProcess,     \* p.cmd.Process: "nil" until cmd.Start() succeeds, then "set"
    child,          \* the child OS process: "none", "running", "exited"
    childErr,       \* what cmd.Wait() returns: "none", "nil", "ExitError", "other"
    supRunPc,       \* position of the goroutine running run
    waiterPc,       \* position of the goroutine started by wait
    doneBuf,        \* channel `done` (capacity 1): "empty" or the error in it
    supStopPc,      \* position of the goroutine running Stop
    sigSent,        \* termination request sent: "none", "interrupt", "kill"
    supSigPc,       \* position of main's signal goroutine (clarifyconsulsvc.go):
                    \* "none", "armed", "stop", "returned"
    \* ---- observations of the supervisor's run (history) ----
    classified,     \* exit classifications the run reported
    stopFirst,      \* Stop signalled the stop (closed p.exit; without p.exit,
                    \* sent the termination request) while the child still ran
    \* ---- two-process supervisor (clarifysvc_all.go) ----
    clRunPc,        \* position of the goroutine running clarify.run
    prgProcess,     \* per program, cmd.Process: "nil" or "set"
    prgChild,       \* per program, its OS process: "none", "running", "exited"
    prgErr,         \* per program, how the process ended: "none", "nil",
                    \* "ExitError"
    watchPc,        \* per program, position of the goroutine started by watch
    watchErr,       \* per program, what cmd.Wait() returned to that goroutine
    clDone,         \* channel `done`: the programExit values buffered in it
    clEvents,       \* the programExit values run received (history)
    clStopPc,       \* position of the goroutine running clarify.Stop
    clSigPc,        \* position of main's signal goroutine: "armed", "consul",
                    \* "nomad" (inside clarify.Stop), "returned"
    prgSig          \* per program, the termination request Stop sent

envVars  == <<install, jobPresent, nodeDrain>>
pcVars   == <<runPc, waitPc, pollPc, stopPc>>
tickVars == <<wTickerOn, wTickBuf, pTickerOn, pTickBuf, wTicks, pTicks>>
chanVars == <<exitCloses, stoppedCloses, doneClosed, foundState>>
svcVars  == <<extStop, svcStopReq, stopResult>>
histVars == <<wfiResult, fires, phases, disc, discDrain, drainCalls, stopPhase,
              lastJob, lastHost, envFault>>
supVars  == <<platform, cmdProcess, child, childErr, supRunPc, waiterPc,
              doneBuf, supStopPc, sigSent, supSigPc, classified, stopFirst>>
allVars  == <<clRunPc, prgProcess, prgChild, prgErr, watchPc, watchErr, clDone,
              clEvents, clStopPc, clSigPc, prgSig>>
wfiHist  == <<firstStat, runLookups, cancelAbsent, foundSends>>
callHist == <<lookupFail, launchOutcome, jobChecks, hostChecks>>
\* What most actions of the coordinator leave alone.
static   == <<variant, supVars, wfiHist, callHist, allVars>>
\* The coordinator's own variables but those it shares with the supervisors.
coordOwn == <<envVars, pcVars, tickVars, stoppedCloses, doneClosed, foundState,
              svcStopReq, stopResult, histVars, wfiHist, callHist>>
\* What the actions of the one-process supervisor leave alone.
coordVars == <<coordOwn, allVars>>
\* What the actions of the two-process supervisor leave alone.
allRest  == <<variant, coordOwn, exitCloses, supVars>>
vars == <<variant, proc, envVars, pcVars, tickVars, chanVars, svcVars, histVars,
          wfiHist, callHist, supVars, allVars>>

\* The two versions of the coordinator and of the supervisor.
Variants == {"part_000", "clarifysvc"}
SupVariants == {"consulsvc", "clarifyconsul"}

Running == proc = "running"

\* Outcomes of a remote call that returns (status, error).
StatusOutcomes == {"ok", "non200", "err"}

----------------------------------------------------------------------------
(* External collaborators: what a call returns in a given remote state.    *)

\* os.Stat(path) followed by !os.IsNotExist(err).
StatFound(inst) == inst # "absent"

\* client.FindJob: an error when the job is missing or the call fails.
FindJob(present, netErr) == IF present /\ ~netErr THEN "found" ELSE "notfound"

\* client.HostID: an error, or the node with its Drain flag.
HostID(drain, netErr) ==
    IF netErr THEN "err" ELSE IF drain THEN "drained" ELSE "ok"

----------------------------------------------------------------------------
(* The coordinator state (spec section 4.4) a position of run stands for;  *)
(* "EnteringPolling" is run between discovery and the start of the poller. *)
PhaseOf(pc) ==
    CASE pc = "idle" -> "Idle"
      [] pc \in {"wfi_stat", "wfi_select", "wfi_return"} -> "WaitingForInstall"
      [] pc = "findjob" -> "Discovering"
      [] pc \in {"node", "disable_drain"} -> "ReconcilingDrain"
      [] pc = "launch" -> "Launching"
      [] pc = "polljob" -> "EnteringPolling"
      [] pc = "select" -> "Polling"
      [] pc = "stopped_branch" -> "UnexpectedlyEnded"
      [] pc = "exit_branch" -> "Draining"
      [] OTHER -> "Returned"

\* The coordinator before Start: what main constructs.
CoordIdle ==
    /\ runPc = "idle" /\ waitPc = "none" /\ pollPc = "none" /\ stopPc = "idle"
    /\ wTickerOn = FALSE /\ wTickBuf = 0 /\ pTickerOn = FALSE /\ pTickBuf = 0
    /\ wTicks = 0 /\ pTicks = 0
    /\ exitCloses = 0 /\ stoppedCloses = 0 /\ doneClosed = FALSE
    /\ foundState = "none"
    /\ extStop = FALSE /\ svcStopReq = FALSE /\ stopResult = "none"
    /\ wfiResult = "none" /\ fires = 0 /\ phases = {"Idle"}
    /\ disc = "none" /\ discDrain = "unknown" /\ drainCalls = {}
    /\ stopPhase = "none" /\ lastJob = "none" /\ lastHost = "none"
    /\ envFault = FALSE
    /\ firstStat = "none" /\ runLookups = 0 /\ cancelAbsent = FALSE
    /\ foundSends = 0
    /\ lookupFail = {} /\ launchOutcome = "none"
    /\ jobChecks = 0 /\ hostChecks = 0

\* The programs the two-process supervisor starts, and the capacity of the
\* channel `done` their watchers share.
Programs == {"consul", "nomad"}
DoneCap == 1

\* The two-process supervisor before Start: what main constructs, its
\* signal goroutine waiting on sigchan.
AllIdle ==
    /\ clRunPc = "idle" /\ clStopPc = "idle"
    /\ clSigPc = IF variant = "clarifysvc_all" THEN "armed" ELSE "none"
    /\ prgProcess = [p \in Programs |-> "nil"]
    /\ prgChild = [p \in Programs |-> "none"]
    /\ prgErr = [p \in Programs |-> "none"]
    /\ watchPc = [p \in Programs |-> "none"]
    /\ watchErr = [p \in Programs |-> "none"]
    /\ prgSig = [p \in Programs |-> "none"]
    /\ clDone = <<>> /\ clEvents = <<>>

\* The supervisor before Start: what main constructs; main of
\* clarifyconsulsvc.go also starts a goroutine that waits on sigchan.
SupIdle ==
    /\ supSigPc = IF variant = "clarifyconsul" THEN "armed" ELSE "none"
    /\ cmdProcess = "nil" /\ child = "none" /\ childErr = "none"
    /\ supRunPc = "idle" /\ waiterPc = "none" /\ doneBuf = "empty"
    /\ supStopPc = "idle" /\ sigSent = "none"
    /\ classified = {} /\ stopFirst = FALSE

\* One service process, of the coordinator or of the supervisor, in any
\* state of its environment.
Init ==
    /\ proc = "running"
    /\ \/ /\ variant \in Variants
          /\ install \in {"absent", "present", "inaccessible"}
          /\ jobPresent \in BOOLEAN
          /\ nodeDrain \in BOOLEAN
          /\ platform = "posix"
       \/ /\ variant \in SupVariants
          /\ platform \in {"windows", "posix"}
          /\ install = "present" /\ jobPresent = FALSE /\ nodeDrain = FALSE
    /\ CoordIdle /\ SupIdle /\ AllIdle

----------------------------------------------------------------------------
(* The environment: the file system, the scheduler, the service manager.   *)

\* The install directory (or the share holding it) appears.
InstallAppears ==
    /\ Running /\ variant \in Variants /\ install = "absent"
    /\ install' = "present"
    /\ UNCHANGED <<static, proc, jobPresent, nodeDrain, pcVars, tickVars,
                   chanVars, svcVars, histVars>>

\* The scheduler loses the job.
JobGone ==
    /\ Running /\ runPc # "idle" /\ jobPresent
    /\ jobPresent' = FALSE
    /\ envFault' = TRUE
    /\ UNCHANGED <<static, proc, install, nodeDrain, pcVars, tickVars, chanVars,
                   svcVars, wfiResult, fires, phases, disc, discDrain,
                   drainCalls, stopPhase, lastJob, lastHost>>

\* Somebody else drains the node.
NodeDrained ==
    /\ Running /\ runPc # "idle" /\ ~nodeDrain
    /\ nodeDrain' = TRUE
    /\ envFault' = TRUE
    /\ UNCHANGED <<static, proc, install, jobPresent, pcVars, tickVars, chanVars,
                   svcVars, wfiResult, fires, phases, disc, discDrain,
                   drainCalls, stopPhase, lastJob, lastHost>>

\* The service manager is asked to stop the service (an operator's stop
\* command, a SIGTERM).
ExternalStop ==
    /\ Running /\ runPc # "idle" /\ ~extStop
    /\ extStop' = TRUE
    /\ UNCHANGED <<static, proc, envVars, pcVars, tickVars, chanVars,
                   svcStopReq, stopResult, histVars>>

\* service.Run: on a stop request it calls program.Stop, once, and returns.
ServiceStop ==
    /\ Running /\ variant \in Variants /\ stopPc = "idle"
    /\ extStop \/ svcStopReq
    /\ stopPc' = "signal_exit"
    /\ stopPhase' = PhaseOf(runPc)
    /\ UNCHANGED <<static, proc, envVars, runPc, waitPc, pollPc, tickVars,
                   chanVars, svcVars, wfiResult, fires, phases, disc, discDrain,
                   drainCalls, lastJob, lastHost, envFault>>

\* main: s.Run() returned after program.Stop; main returns.
MainReturn ==
    /\ Running /\ stopPc = "returned"
    /\ proc' = "exit0"
    /\ UNCHANGED <<static, envVars, pcVars, tickVars, chanVars, svcVars,
                   histVars>>

----------------------------------------------------------------------------
(* program.Start and program.run up to the poller.                         *)

Start ==
    /\ Running /\ variant \in Variants /\ runPc = "idle"
    /\ runPc' = "wfi_stat"
    /\ phases' = phases \cup {"WaitingForInstall"}
    /\ UNCHANGED <<static, proc, envVars, waitPc, pollPc, stopPc, tickVars,
                   chanVars, svcVars, wfiResult, fires, disc, discDrain,
                   drainCalls, stopPhase, lastJob, lastHost, envFault>>

\* A waitForInstall without the early return: it polls in every case.
WaitForInstallStatNoReturn ==
    /\ Running /\ runPc = "wfi_stat"
    /\ firstStat' = IF StatFound(install) THEN "found" ELSE "notfound"
    /\ foundState' = "open"
    /\ waitPc' = "select"
    /\ wTickerOn' = TRUE
    /\ runPc' = "wfi_select"
    /\ UNCHANGED <<variant, supVars, allVars, runLookups, cancelAbsent, foundSends, callHist, proc,
                   envVars, pollPc, stopPc, wTickBuf, pTickerOn, pTickBuf, wTicks,
                   pTicks, exitCloses, stoppedCloses, doneClosed, svcVars,
                   histVars>>

\* waitForInstall, first check: return true, or make `found`, defer its
\* close and start the polling goroutine with its ticker.
WaitForInstallStat ==
    /\ Running /\ runPc = "wfi_stat"
    /\ firstStat' = IF StatFound(install) THEN "found" ELSE "notfound"
    /\ IF StatFound(install)
       THEN /\ wfiResult' = "true"
            /\ runPc' = "findjob"
            /\ phases' = phases \cup {"Discovering"}
            /\ UNCHANGED <<waitPc, wTickerOn, foundState>>
       ELSE /\ foundState' = "open"
            /\ waitPc' = "select"
            /\ wTickerOn' = TRUE
            /\ runPc' = "wfi_select"
            /\ UNCHANGED <<wfiResult, phases>>
    /\ UNCHANGED <<variant, supVars, allVars, runLookups, cancelAbsent, foundSends, callHist, proc,
                   envVars, pollPc, stopPc, wTickBuf, pTickerOn,
                   pTickBuf, wTicks, pTicks, exitCloses, stoppedCloses,
                   doneClosed, svcVars, fires, disc, discDrain, drainCalls,
                   stopPhase, lastJob, lastHost, envFault>>

\* waitForInstall's ticker delivers a tick into its channel (capacity 1).
WaitTick ==
    /\ Running /\ wTickerOn /\ wTickBuf = 0 /\ wTicks < MaxTicks
    /\ wTickBuf' = 1
    /\ wTicks' = wTicks + 1
    /\ UNCHANGED <<static, proc, envVars, pcVars, wTickerOn, pTickerOn,
                   pTickBuf, pTicks, chanVars, svcVars, histVars>>

\* case <-ticker.C of the polling goroutine.
WaitRecvTick ==
    /\ Running /\ waitPc = "select" /\ wTickBuf = 1
    /\ wTickBuf' = 0
    /\ IF StatFound(install)
       THEN wTickerOn' = FALSE /\ waitPc' = "send_true"
       ELSE UNCHANGED <<wTickerOn, waitPc>>
    /\ UNCHANGED <<static, proc, envVars, runPc, pollPc, stopPc, pTickerOn,
                   pTickBuf, wTicks, pTicks, chanVars, svcVars, histVars>>

\* case <-p.exit of the polling goroutine, part_000: p.exit is closed.
WaitRecvExitClosed ==
    /\ Running /\ variant = "part_000"
    /\ waitPc = "select" /\ exitCloses >= 1
    /\ wTickerOn' = FALSE
    /\ waitPc' = "send_false"
    /\ UNCHANGED <<static, proc, envVars, runPc, pollPc, stopPc, wTickBuf,
                   pTickerOn, pTickBuf, wTicks, pTicks, chanVars, svcVars,
                   histVars>>

\* A polling goroutine that goes round its loop again after the send.
RunRecvFoundKeepsPolling ==
    /\ Running /\ runPc = "wfi_select"
    /\ waitPc \in {"send_true", "send_false"}
    /\ wfiResult' = IF waitPc = "send_true" THEN "true" ELSE "false"
    /\ foundSends' = foundSends + 1
    /\ waitPc' = "select"
    /\ runPc' = "wfi_return"
    /\ UNCHANGED <<variant, supVars, allVars, firstStat, runLookups, cancelAbsent,
                   callHist, proc, envVars, pollPc, stopPc, tickVars, chanVars,
                   svcVars, fires, phases, disc, discDrain, drainCalls,
                   stopPhase, lastJob, lastHost, envFault>>

\* run receives on `found`; the polling goroutine's send completes and it
\* returns.
RunRecvFound ==
    /\ Running /\ runPc = "wfi_select"
    /\ waitPc \in {"send_true", "send_false"}
    /\ wfiResult' = IF waitPc = "send_true" THEN "true" ELSE "false"
    /\ foundSends' = foundSends + 1
    /\ waitPc' = "done"
    /\ runPc' = "wfi_return"
    /\ UNCHANGED <<variant, supVars, allVars, firstStat, runLookups, cancelAbsent,
                   callHist, proc, envVars, pollPc, stopPc, tickVars, chanVars,
                   svcVars, fires, phases, disc, discDrain, drainCalls,
                   stopPhase, lastJob, lastHost, envFault>>

\* A run that goes on to discovery whatever waitForInstall returned.
RunWfiReturnProceeds ==
    /\ Running /\ runPc = "wfi_return"
    /\ foundState' = "closed"
    /\ runPc' = "findjob" /\ phases' = phases \cup {"Discovering"}
    /\ UNCHANGED <<static, proc, envVars, waitPc, pollPc, stopPc, tickVars,
                   exitCloses, stoppedCloses, doneClosed, svcVars, wfiResult,
                   fires, disc, discDrain, drainCalls, stopPhase, lastJob,
                   lastHost, envFault>>

\* waitForInstall returns: the deferred close(found), then run goes on to
\* discovery or logs "clarify install not available" and returns.
RunWfiReturn ==
    /\ Running /\ runPc = "wfi_return"
    /\ foundState' = "closed"
    /\ IF wfiResult = "true"
       THEN runPc' = "findjob" /\ phases' = phases \cup {"Discovering"}
       ELSE runPc' = "returned" /\ phases' = phases \cup {"Aborted"}
    /\ UNCHANGED <<static, proc, envVars, waitPc, pollPc, stopPc, tickVars,
                   exitCloses, stoppedCloses, doneClosed, svcVars, wfiResult,
                   fires, disc, discDrain, drainCalls, stopPhase, lastJob,
                   lastHost, envFault>>

\* A run that reconciles the drain flag whether or not the job was found.
AfterFindJobAlwaysNode(r) == "node"

\* if err == nil { reconcile the drain flag } else { launch }.
AfterFindJob(r) == IF r = "found" THEN "node" ELSE "launch"

\* client.FindJob at discovery.
RunFindJob ==
    /\ Running /\ runPc = "findjob"
    /\ \E netErr \in BOOLEAN :
         LET r == FindJob(jobPresent, netErr) IN
           /\ disc' = IF r = "found" THEN "found" ELSE "missing"
           /\ runPc' = AfterFindJob(r)
    /\ phases' = phases \cup {PhaseOf(runPc')}
    /\ UNCHANGED <<static, proc, envVars, waitPc, pollPc, stopPc, tickVars,
                   chanVars, svcVars, wfiResult, fires, discDrain, drainCalls,
                   stopPhase, lastJob, lastHost, envFault>>

\* The outcomes of program.node(): os.Hostname() fails, or client.HostID.
NodeOutcomes == {"hostname_err"} \cup {HostID(nodeDrain, e) : e \in BOOLEAN}

\* node() has a node to return: os.Hostname() and client.HostID succeeded.
NodeKnown(o) == o \in {"ok", "drained"}

\* A node() that goes on without a node.
NodeFatalNever(o) == FALSE

\* node() exits the process when it has no node to return.
NodeFatal(o) == o \in {"hostname_err", "err"}

\* A run that does not look at node.Drain.
AfterNodeNoDrainCheck(o) == "polljob"

\* if node.Drain { p.disableDrain(node.ID) }.
AfterNode(o) == IF o = "drained" THEN "disable_drain" ELSE "polljob"

\* node := p.node(); if node.Drain { ... }
RunNode ==
    /\ Running /\ runPc = "node"
    /\ runLookups' = runLookups + 1
    /\ \E o \in NodeOutcomes :
         /\ lookupFail' = IF NodeKnown(o) THEN lookupFail
                          ELSE lookupFail \cup {"ReconcilingDrain"}
         /\ IF NodeFatal(o)
            THEN proc' = "exit1" /\ UNCHANGED <<runPc, discDrain>>
            ELSE /\ discDrain' = IF o = "drained" THEN "drained" ELSE "undrained"
                 /\ runPc' = AfterNode(o)
                 /\ UNCHANGED proc
    /\ UNCHANGED <<variant, supVars, allVars, firstStat, cancelAbsent, foundSends, launchOutcome,
                   jobChecks, hostChecks, envVars, waitPc, pollPc, stopPc,
                   tickVars, chanVars,
                   svcVars, wfiResult, fires, phases, disc, drainCalls,
                   stopPhase, lastJob, lastHost, envFault>>

\* disableDrain of part_000: failures are logged and run goes on.
DisableDrainFatal000(o) == FALSE

\* disableDrain of clarifysvc.go: an error or a status other than OK exits.
DisableDrainFatalSvc(o) == o # "ok"

\* p.disableDrain(node.ID): client.Drain(p.nomad, id, false).
RunDisableDrain ==
    /\ Running /\ runPc = "disable_drain"
    /\ \E o \in StatusOutcomes :
         /\ drainCalls' = drainCalls \cup {<<FALSE, o>>}
         /\ nodeDrain' = IF o = "ok" THEN FALSE ELSE nodeDrain
         /\ IF (IF variant = "part_000" THEN DisableDrainFatal000(o)
                                        ELSE DisableDrainFatalSvc(o))
            THEN proc' = "exit1" /\ UNCHANGED runPc
            ELSE runPc' = "polljob" /\ UNCHANGED proc
    /\ UNCHANGED <<static, install, jobPresent, waitPc, pollPc, stopPc,
                   tickVars, chanVars, svcVars, wfiResult, fires, phases, disc,
                   discDrain, stopPhase, lastJob, lastHost, envFault>>

\* A launchClarify that reports success whatever SubmitJob returned.
LaunchOkAlways(o) == TRUE

\* launchClarify: SubmitJob must return no error and status OK.
LaunchOk(o) == o = "ok"

\* _, err := p.launchClarify(); if err != nil { os.Exit(1) }
RunLaunch ==
    /\ Running /\ runPc = "launch"
    /\ \E o \in StatusOutcomes :
         /\ launchOutcome' = o
         /\ jobPresent' = IF o = "ok" THEN TRUE ELSE jobPresent
         /\ IF LaunchOk(o)
            THEN runPc' = "polljob" /\ UNCHANGED proc
            ELSE proc' = "exit1" /\ UNCHANGED runPc
    /\ UNCHANGED <<variant, supVars, allVars, wfiHist, lookupFail, jobChecks,
                   hostChecks, install, nodeDrain, waitPc, pollPc, stopPc,
                   tickVars, chanVars, svcVars, histVars>>

\* stopped := p.pollJob(): the poller goroutine and its ticker start.
RunPollJob ==
    /\ Running /\ runPc = "polljob"
    /\ pollPc' = "select"
    /\ pTickerOn' = TRUE
    /\ runPc' = "select"
    /\ phases' = phases \cup {"Polling"}
    /\ UNCHANGED <<static, proc, envVars, waitPc, stopPc, wTickerOn, wTickBuf,
                   pTickBuf, wTicks, pTicks, chanVars, svcVars, wfiResult,
                   fires, disc, discDrain, drainCalls, stopPhase, lastJob,
                   lastHost, envFault>>

----------------------------------------------------------------------------
(* pollJob: the goroutine that re-checks the job and the node per tick.    *)

\* pollJob's ticker delivers a tick into its channel (capacity 1).
PollTick ==
    /\ Running /\ pTickerOn /\ pTickBuf = 0 /\ pTicks < MaxTicks
    /\ pTickBuf' = 1
    /\ pTicks' = pTicks + 1
    /\ UNCHANGED <<static, proc, envVars, pcVars, wTickerOn, wTickBuf,
                   pTickerOn, wTicks, chanVars, svcVars, histVars>>

\* A poller that starts a tick with the node check.
PollRecvTickHostFirst ==
    /\ Running /\ pollPc = "select" /\ pTickBuf = 1
    /\ pTickBuf' = 0
    /\ pollPc' = "hostid"
    /\ UNCHANGED <<static, proc, envVars, runPc, waitPc, stopPc, wTickerOn,
                   wTickBuf, pTickerOn, wTicks, pTicks, chanVars, svcVars,
                   histVars>>

\* case <-ticker.C. ticker.Stop() does not drain the channel, so a tick that
\* was buffered before the ticker was stopped is still received here.
PollRecvTick ==
    /\ Running /\ pollPc = "select" /\ pTickBuf = 1
    /\ pTickBuf' = 0
    /\ pollPc' = "findjob"
    /\ UNCHANGED <<static, proc, envVars, runPc, waitPc, stopPc, wTickerOn,
                   wTickBuf, pTickerOn, wTicks, pTicks, chanVars, svcVars,
                   histVars>>

\* First check of a tick: client.FindJob; on an error the ticker is stopped
\* and the terminal signal is due.
PollFindJob ==
    /\ Running /\ pollPc = "findjob"
    /\ \E netErr \in BOOLEAN :
         LET r == FindJob(jobPresent, netErr) IN
           /\ lastJob' = r
           /\ IF r = "notfound"
              THEN pTickerOn' = FALSE /\ pollPc' = "fire1" /\ envFault' = TRUE
              ELSE pollPc' = "hostid" /\ UNCHANGED <<pTickerOn, envFault>>
    /\ jobChecks' = jobChecks + 1
    /\ UNCHANGED <<variant, supVars, allVars, wfiHist, lookupFail, launchOutcome,
                   hostChecks, proc, envVars, runPc, waitPc, stopPc, wTickerOn,
                   wTickBuf, pTickBuf, wTicks, pTicks, chanVars, svcVars,
                   wfiResult, fires, phases, disc, discDrain, drainCalls,
                   stopPhase, lastHost>>

\* Where the poller goes after the terminal signal of the first or of the
\* second check: nothing returns or breaks out of the loop.
AfterFire(pc) == IF pc = "fire1" THEN "hostid" ELSE "select"

\* part_000: close(stopped). Closing a closed channel panics.
PollCloseStopped ==
    /\ Running /\ variant = "part_000"
    /\ pollPc \in {"fire1", "fire2"}
    /\ stoppedCloses' = stoppedCloses + 1
    /\ fires' = fires + 1
    /\ proc' = IF stoppedCloses >= 1 THEN "panic" ELSE proc
    /\ pollPc' = AfterFire(pollPc)
    /\ UNCHANGED <<static, envVars, runPc, waitPc, stopPc, tickVars,
                   exitCloses, doneClosed, foundState, svcVars, wfiResult,
                   phases, disc, discDrain, drainCalls, stopPhase, lastJob,
                   lastHost, envFault>>

\* clarifysvc.go: stopped <- struct{}{} meets run's case <-stopped (the
\* channel is unbuffered: the send completes only with a receiver).
PollSendStopped ==
    /\ Running /\ variant = "clarifysvc"
    /\ pollPc \in {"fire1", "fire2"}
    /\ runPc = "select"
    /\ fires' = fires + 1
    /\ pollPc' = AfterFire(pollPc)
    /\ runPc' = "stopped_branch"
    /\ phases' = phases \cup {"UnexpectedlyEnded"}
    /\ UNCHANGED <<static, proc, envVars, waitPc, stopPc, tickVars, chanVars,
                   svcVars, wfiResult, disc, discDrain, drainCalls, stopPhase,
                   lastJob, lastHost, envFault>>

\* Second check, part_000: a lookup error is logged as a warning; a node
\* that reports Drain is definitive.
HostVerdict000(r) == IF r = "err" THEN "continue"
                     ELSE IF r = "drained" THEN "fire" ELSE "continue"

\* Second check, clarifysvc.go: only the error of HostID is looked at, and
\* it is taken for "node drained".
HostVerdictSvc(r) == IF r = "err" THEN "fire" ELSE "continue"

HostVerdict(v, r) == IF v = "part_000" THEN HostVerdict000(r)
                                       ELSE HostVerdictSvc(r)

\* Second check of a tick: client.HostID.
PollHostID ==
    /\ Running /\ pollPc = "hostid"
    /\ \E netErr \in BOOLEAN :
         LET r == HostID(nodeDrain, netErr) IN
           /\ lastHost' = r
           /\ envFault' = (envFault \/ r = "err"
                           \/ (r = "drained" /\ <<TRUE, "ok">> \notin drainCalls))
           /\ IF HostVerdict(variant, r) = "fire"
              THEN pTickerOn' = FALSE /\ pollPc' = "fire2"
              ELSE pollPc' = "select" /\ UNCHANGED pTickerOn
    /\ hostChecks' = hostChecks + 1
    /\ UNCHANGED <<variant, supVars, allVars, wfiHist, lookupFail, launchOutcome,
                   jobChecks, proc, envVars, runPc, waitPc, stopPc, wTickerOn,
                   wTickBuf, pTickBuf, wTicks, pTicks, chanVars, svcVars,
                   wfiResult, fires, phases, disc, discDrain, drainCalls,
                   stopPhase, lastJob>>

\* clarifysvc.go: case <-done: ticker.Stop(), and the loop goes round again.
PollDone ==
    /\ Running /\ variant = "clarifysvc"
    /\ pollPc = "select" /\ doneClosed
    /\ pTickerOn' = FALSE
    /\ UNCHANGED <<static, proc, envVars, pcVars, wTickerOn, wTickBuf,
                   pTickBuf, wTicks, pTicks, chanVars, svcVars, histVars>>

----------------------------------------------------------------------------
(* The select that ends program.run.                                       *)

\* part_000: case <-stopped, ready once `stopped` is closed.
RunRecvStopped ==
    /\ Running /\ variant = "part_000"
    /\ runPc = "select" /\ stoppedCloses >= 1
    /\ runPc' = "stopped_branch"
    /\ phases' = phases \cup {"UnexpectedlyEnded"}
    /\ UNCHANGED <<static, proc, envVars, waitPc, pollPc, stopPc, tickVars,
                   chanVars, svcVars, wfiResult, fires, disc, discDrain,
                   drainCalls, stopPhase, lastJob, lastHost, envFault>>

\* A run that signals the shutdown itself: close(p.exit) in place of
\* p.svc.Stop().
RunSvcStopClosesExit ==
    /\ Running /\ variant = "part_000"
    /\ runPc = "stopped_branch"
    /\ exitCloses' = exitCloses + 1
    /\ proc' = IF exitCloses >= 1 THEN "panic" ELSE proc
    /\ runPc' = "returned"
    /\ UNCHANGED <<static, envVars, waitPc, pollPc, stopPc, tickVars,
                   stoppedCloses, doneClosed, foundState, svcVars, histVars>>

\* part_000: p.svc.Stop() asks the service manager to stop the service.
RunSvcStop ==
    /\ Running /\ variant = "part_000"
    /\ runPc = "stopped_branch"
    /\ svcStopReq' = TRUE
    /\ runPc' = "returned"
    /\ UNCHANGED <<static, proc, envVars, waitPc, pollPc, stopPc, tickVars,
                   chanVars, extStop, stopResult, histVars>>

\* clarifysvc.go: os.Exit(1).
RunOsExit ==
    /\ Running /\ variant = "clarifysvc"
    /\ runPc = "stopped_branch"
    /\ proc' = "exit1"
    /\ UNCHANGED <<static, envVars, pcVars, tickVars, chanVars, svcVars,
                   histVars>>

\* clarifysvc.go: close(done) in the case <-p.exit branch.
RunCloseDone ==
    /\ Running /\ variant = "clarifysvc"
    /\ runPc = "exit_branch"
    /\ doneClosed' = TRUE
    /\ runPc' = "returned"
    /\ UNCHANGED <<static, proc, envVars, waitPc, pollPc, stopPc, tickVars,
                   exitCloses, stoppedCloses, foundState, svcVars, histVars>>

----------------------------------------------------------------------------
(* program.Stop.                                                           *)

\* part_000: close(p.exit). Closing a closed channel panics.
StopCloseExit ==
    /\ Running /\ variant = "part_000"
    /\ stopPc = "signal_exit"
    /\ exitCloses' = exitCloses + 1
    /\ proc' = IF exitCloses >= 1 THEN "panic" ELSE proc
    /\ stopPc' = "node"
    /\ phases' = phases \cup {"Draining"}
    /\ cancelAbsent' = (waitPc = "select" /\ install = "absent")
    /\ UNCHANGED <<variant, supVars, allVars, firstStat, runLookups, foundSends, callHist, envVars,
                   runPc, waitPc, pollPc, tickVars,
                   stoppedCloses, doneClosed, foundState, svcVars, wfiResult,
                   fires, disc, discDrain, drainCalls, stopPhase, lastJob,
                   lastHost, envFault>>

\* clarifysvc.go: p.exit <- struct{}{} meets case <-exit of waitForInstall's
\* polling goroutine (the channel is unbuffered).
StopSendExitToWait ==
    /\ Running /\ variant = "clarifysvc"
    /\ stopPc = "signal_exit" /\ waitPc = "select"
    /\ stopPc' = "node"
    /\ wTickerOn' = FALSE
    /\ waitPc' = "send_false"
    /\ phases' = phases \cup {"Draining"}
    /\ cancelAbsent' = (install = "absent")
    /\ UNCHANGED <<variant, supVars, allVars, firstStat, runLookups, foundSends, callHist, proc,
                   envVars, runPc, pollPc, wTickBuf, pTickerOn,
                   pTickBuf, wTicks, pTicks, chanVars, svcVars, wfiResult,
                   fires, disc, discDrain, drainCalls, stopPhase, lastJob,
                   lastHost, envFault>>

\* clarifysvc.go: p.exit <- struct{}{} meets case <-p.exit of run's select.
StopSendExitToRun ==
    /\ Running /\ variant = "clarifysvc"
    /\ stopPc = "signal_exit" /\ runPc = "select"
    /\ stopPc' = "node"
    /\ runPc' = "exit_branch"
    /\ phases' = phases \cup {"Draining"}
    /\ UNCHANGED <<static, proc, envVars, waitPc, pollPc, tickVars, chanVars,
                   svcVars, wfiResult, fires, disc, discDrain, drainCalls,
                   stopPhase, lastJob, lastHost, envFault>>

\* node := p.node() in Stop.
StopNode ==
    /\ Running /\ stopPc = "node"
    /\ \E o \in NodeOutcomes :
         /\ lookupFail' = IF NodeKnown(o) THEN lookupFail
                          ELSE lookupFail \cup {"Draining"}
         /\ IF NodeFatal(o)
            THEN proc' = "exit1" /\ UNCHANGED stopPc
            ELSE stopPc' = "drain" /\ UNCHANGED proc
    /\ UNCHANGED <<variant, supVars, allVars, wfiHist, launchOutcome, jobChecks,
                   hostChecks, envVars, runPc, waitPc, pollPc, tickVars,
                   chanVars, svcVars, histVars>>

\* What Stop returns for the outcome of client.Drain(p.nomad, node.ID, true).
StopReturn(o) == IF o = "ok" THEN "nil" ELSE "err"

\* A Stop that does not return until the drain is acknowledged.
StopDrainRetries ==
    /\ Running /\ stopPc = "drain"
    /\ \E o \in StatusOutcomes :
         /\ drainCalls' = drainCalls \cup {<<TRUE, o>>}
         /\ nodeDrain' = IF o = "ok" THEN TRUE ELSE nodeDrain
         /\ IF o = "ok"
            THEN /\ stopResult' = "nil" /\ stopPc' = "returned"
                 /\ phases' = phases \cup {"Stopped"}
            ELSE UNCHANGED <<stopResult, stopPc, phases>>
    /\ UNCHANGED <<static, proc, install, jobPresent, runPc, waitPc, pollPc,
                   tickVars, chanVars, extStop, svcStopReq, wfiResult, fires,
                   disc, discDrain, stopPhase, lastJob, lastHost, envFault>>

\* status, err := client.Drain(p.nomad, node.ID, true), and Stop returns.
StopDrain ==
    /\ Running /\ stopPc = "drain"
    /\ \E o \in StatusOutcomes :
         /\ drainCalls' = drainCalls \cup {<<TRUE, o>>}
         /\ nodeDrain' = IF o = "ok" THEN TRUE ELSE nodeDrain
         /\ stopResult' = StopReturn(o)
    /\ stopPc' = "returned"
    /\ phases' = phases \cup {"Stopped"}
    /\ UNCHANGED <<static, proc, install, jobPresent, runPc, waitPc, pollPc,
                   tickVars, chanVars, extStop, svcStopReq, wfiResult, fires,
                   disc, discDrain, stopPhase, lastJob, lastHost, envFault>>

----------------------------------------------------------------------------
(* The process supervisor: consul.Start / Stop / run / wait (and the same   *)
(* code for nomad).                                                        *)

SupRunning == Running /\ variant \in SupVariants

\* Start: p.cmd = exec.Command(...); go p.run(). The command is built, the
\* OS process is not started yet.
SupStart ==
    /\ SupRunning /\ supRunPc = "idle"
    /\ supRunPc' = "start"
    /\ UNCHANGED <<variant, proc, coordVars, exitCloses, extStop, platform, supSigPc,
                   cmdProcess, child, childErr, waiterPc, doneBuf, supStopPc,
                   sigSent, classified, stopFirst>>

\* run: p.cmd.Start(). Its error is dropped; on success cmd.Process is set
\* and the child runs.
SupRunCmdStart ==
    /\ SupRunning /\ supRunPc = "start"
    /\ \E ok \in BOOLEAN :
         IF ok THEN cmdProcess' = "set" /\ child' = "running"
               ELSE UNCHANGED <<cmdProcess, child>>
    /\ supRunPc' = "wait"
    /\ UNCHANGED <<variant, proc, coordVars, exitCloses, extStop, platform, supSigPc,
                   childErr, waiterPc, doneBuf, supStopPc, sigSent, classified,
                   stopFirst>>

\* run: done := wait(p.cmd) makes `done` (capacity 1) and starts the
\* goroutine that waits for the child.
SupRunWait ==
    /\ SupRunning /\ supRunPc = "wait"
    /\ waiterPc' = "waiting"
    /\ supRunPc' = "select"
    /\ UNCHANGED <<variant, proc, coordVars, exitCloses, extStop, platform, supSigPc,
                   cmdProcess, child, childErr, doneBuf, supStopPc, sigSent,
                   classified, stopFirst>>

\* The child process ends, with status 0 or not: on its own, or after the
\* termination request.
ChildExit ==
    /\ SupRunning /\ child = "running"
    /\ child' = "exited"
    /\ \E e \in {"nil", "ExitError"} : childErr' = e
    /\ UNCHANGED <<variant, proc, coordVars, exitCloses, extStop, platform, supSigPc,
                   cmdProcess, supRunPc, waiterPc, doneBuf, supStopPc, sigSent,
                   classified, stopFirst>>

\* wait's goroutine: done <- cmd.Wait(). Wait returns when the child has
\* ended, or at once with an error ("exec: not started") when cmd.Start()
\* had failed.
WaiterSend ==
    /\ SupRunning /\ waiterPc = "waiting"
    /\ child = "exited" \/ cmdProcess = "nil"
    /\ doneBuf' = IF cmdProcess = "nil" THEN "other" ELSE childErr
    /\ waiterPc' = "done"
    /\ UNCHANGED <<variant, proc, coordVars, exitCloses, extStop, platform, supSigPc,
                   cmdProcess, child, childErr, supRunPc, supStopPc, sigSent,
                   classified, stopFirst>>

\* A run that reports every exit as graceful.
ClassifyAllGraceful(err) == "ExitedGraceful"

\* switch err.(type): *exec.ExitError, or anything else.
Classify(err) == IF err = "ExitError" THEN "ExitedWithError"
                                      ELSE "ExitedGraceful"

\* The status of os.Exit after a classification: consulsvc.go exits 1 in
\* both branches, clarifyconsulsvc.go exits 0 after "exited gracefully".
SupExitCode(v, class) ==
    IF v = "clarifyconsul" /\ class = "ExitedGraceful" THEN "exit0" ELSE "exit1"

\* run: case err := <-done: log the classification and os.Exit.
SupRunRecvDone ==
    /\ SupRunning /\ supRunPc = "select" /\ doneBuf # "empty"
    /\ classified' = classified \cup {Classify(doneBuf)}
    /\ proc' = SupExitCode(variant, Classify(doneBuf))
    /\ doneBuf' = "empty"
    /\ supRunPc' = "exiting"
    /\ UNCHANGED <<variant, coordVars, exitCloses, extStop, platform, supSigPc,
                   cmdProcess, child, childErr, waiterPc, supStopPc, sigSent,
                   stopFirst>>

\* run of consulsvc.go: case <-p.exit: return, ready once p.exit is closed.
SupRunRecvExit ==
    /\ SupRunning /\ variant = "consulsvc"
    /\ supRunPc = "select" /\ exitCloses >= 1
    /\ classified' = classified \cup {"StoppedByRequest"}
    /\ supRunPc' = "returned"
    /\ UNCHANGED <<variant, proc, coordVars, exitCloses, extStop, platform, supSigPc,
                   cmdProcess, child, childErr, waiterPc, doneBuf, supStopPc,
                   sigSent, stopFirst>>

\* The service manager is asked to stop the service: the request reaches
\* service.Run, which waits for it once Start has returned.
SupExternalStop ==
    /\ SupRunning /\ supRunPc # "idle" /\ ~extStop
    /\ extStop' = TRUE
    /\ UNCHANGED <<variant, proc, coordVars, exitCloses, supVars>>

\* service.Run: on the stop request it calls Stop, once, and returns.
SupServiceStop ==
    /\ SupRunning /\ extStop /\ supStopPc = "idle"
    /\ supStopPc' = IF variant = "consulsvc" THEN "close_exit" ELSE "signal"
    /\ UNCHANGED <<variant, proc, coordVars, exitCloses, extStop, platform, supSigPc,
                   cmdProcess, child, childErr, supRunPc, waiterPc, doneBuf,
                   sigSent, classified, stopFirst>>

\* Stop of consulsvc.go: close(p.exit). Closing a closed channel panics.
SupStopCloseExit ==
    /\ SupRunning /\ supStopPc = "close_exit"
    /\ exitCloses' = exitCloses + 1
    /\ proc' = IF exitCloses >= 1 THEN "panic" ELSE proc
    /\ supStopPc' = "signal"
    /\ stopFirst' = (child = "running")
    /\ UNCHANGED <<variant, coordVars, extStop, platform, supSigPc, cmdProcess, child,
                   childErr, supRunPc, waiterPc, doneBuf, sigSent, classified>>

\* The termination request of a platform: Kill on windows, Interrupt else.
Terminator(os) == IF os = "windows" THEN "kill" ELSE "interrupt"

\* Stop: p.cmd.Process.Kill() or p.cmd.Process.Signal(os.Interrupt), an
\* error of which is logged; with cmd.Process still nil the call panics.
SupStopSignal ==
    /\ SupRunning /\ supStopPc = "signal"
    /\ IF cmdProcess = "nil"
       THEN proc' = "panic" /\ UNCHANGED <<sigSent, stopFirst>>
       ELSE /\ sigSent' = Terminator(platform)
            /\ stopFirst' = IF variant = "clarifyconsul"
                             THEN stopFirst \/ child = "running"
                             ELSE stopFirst
            /\ UNCHANGED proc
    /\ supStopPc' = "returned"
    /\ UNCHANGED <<variant, coordVars, exitCloses, extStop, platform, supSigPc,
                   cmdProcess, child, childErr, supRunPc, waiterPc, doneBuf,
                   classified>>

\* main of clarifyconsulsvc.go: SIGINT or SIGTERM arrives and the goroutine
\* started before s.Run() receives it from sigchan. The goroutine waits
\* from the moment main starts it: before Start, during run, after Stop.
SupSignal ==
    /\ SupRunning /\ supSigPc = "armed"
    /\ supSigPc' = "stop"
    /\ UNCHANGED <<variant, proc, coordVars, exitCloses, extStop, platform,
                   cmdProcess, child, childErr, supRunPc, waiterPc, doneBuf,
                   supStopPc, sigSent, classified, stopFirst>>

\* main's goroutine: prg.Stop(s), a second caller of Stop next to
\* service.Run. With p.cmd or p.cmd.Process still nil the call panics.
SupSigStop ==
    /\ SupRunning /\ supSigPc = "stop"
    /\ IF cmdProcess = "nil"
       THEN proc' = "panic" /\ UNCHANGED <<sigSent, stopFirst>>
       ELSE /\ sigSent' = Terminator(platform)
            /\ stopFirst' = (stopFirst \/ child = "running")
            /\ UNCHANGED proc
    /\ supSigPc' = "returned"
    /\ UNCHANGED <<variant, coordVars, exitCloses, extStop, platform,
                   cmdProcess, child, childErr, supRunPc, waiterPc, doneBuf,
                   supStopPc, classified>>

\* main: s.Run() returned after Stop; main returns.
SupMainReturn ==
    /\ SupRunning /\ supStopPc = "returned"
    /\ proc' = "exit0"
    /\ UNCHANGED <<variant, coordVars, exitCloses, extStop, supVars>>

----------------------------------------------------------------------------
Next ==
    \/ InstallAppears \/ JobGone \/ NodeDrained
    \/ ExternalStop \/ ServiceStop \/ MainReturn
    \/ Start \/ WaitForInstallStat \/ WaitTick \/ WaitRecvTick
    \/ WaitRecvExitClosed \/ RunRecvFound \/ RunWfiReturn
    \/ RunFindJob \/ RunNode \/ RunDisableDrain \/ RunLaunch \/ RunPollJob
    \/ PollTick \/ PollRecvTick \/ PollFindJob \/ PollCloseStopped
    \/ PollSendStopped \/ PollHostID \/ PollDone
    \/ RunRecvStopped \/ RunSvcStop \/ RunOsExit \/ RunCloseDone
    \/ StopCloseExit \/ StopSendExitToWait \/ StopSendExitToRun
    \/ StopNode \/ StopDrain
    \/ SupStart \/ SupRunCmdStart \/ SupRunWait \/ ChildExit \/ WaiterSend
    \/ SupRunRecvDone \/ SupRunRecvExit \/ SupExternalStop \/ SupServiceStop
    \/ SupStopCloseExit \/ SupStopSignal \/ SupMainReturn
    \/ SupSignal \/ SupSigStop

Spec == Init /\ [][Next]_vars

\* The steps of each goroutine. A step on an unbuffered channel belongs to
\* the two goroutines that meet on it.
RunSteps ==
    \/ WaitForInstallStat \/ RunRecvFound \/ RunWfiReturn \/ RunFindJob
    \/ RunNode \/ RunDisableDrain \/ RunLaunch \/ RunPollJob
    \/ RunRecvStopped \/ RunSvcStop \/ RunOsExit \/ RunCloseDone
WaitSteps == WaitRecvTick \/ WaitRecvExitClosed
PollSteps ==
    PollRecvTick \/ PollFindJob \/ PollCloseStopped \/ PollHostID \/ PollDone
StopSteps == StopCloseExit \/ StopNode \/ StopDrain
MeetSteps == PollSendStopped \/ StopSendExitToWait \/ StopSendExitToRun
\* service.Run and main: Start, the call of Stop on a stop request, the
\* return of main.
MainSteps == Start \/ ServiceStop \/ MainReturn
SupSteps ==
    \/ SupStart \/ SupRunCmdStart \/ SupRunWait \/ WaiterSend
    \/ SupRunRecvDone \/ SupRunRecvExit \/ SupServiceStop
    \/ SupStopCloseExit \/ SupStopSignal \/ SupMainReturn \/ SupSigStop

\* The Go scheduler runs every goroutine that can take a step; the
\* environment (the file system, the scheduler's state, the operator, the
\* child process, the tickers) is under no obligation.
FairSpec ==
    /\ Spec
    /\ WF_vars(RunSteps) /\ WF_vars(WaitSteps) /\ WF_vars(PollSteps)
    /\ WF_vars(StopSteps) /\ WF_vars(MeetSteps) /\ WF_vars(MainSteps)
    /\ WF_vars(SupSteps)

----------------------------------------------------------------------------
(* The two-process supervisor: clarify.Start / Stop / run and program.watch *)
(* of clarifysvc_all.go.                                                   *)

AllRunning == Running /\ variant = "clarifysvc_all"

\* Start: both commands are built with exec.Command; go c.run().
ClStart ==
    /\ AllRunning /\ clRunPc = "idle"
    /\ clRunPc' = "start_consul"
    /\ UNCHANGED <<allRest, clSigPc, proc, extStop, prgProcess, prgChild, prgErr,
                   watchPc, watchErr, clDone, clEvents, clStopPc, prgSig>>

\* run: c.consul.cmd.Start(), then c.nomad.cmd.Start(). The error is
\* dropped; on success cmd.Process is set and the process runs.
ClRunCmdStart(p) ==
    /\ AllRunning /\ clRunPc = "start_" \o p
    /\ \E ok \in BOOLEAN :
         IF ok THEN /\ prgProcess' = [prgProcess EXCEPT ![p] = "set"]
                    /\ prgChild' = [prgChild EXCEPT ![p] = "running"]
               ELSE UNCHANGED <<prgProcess, prgChild>>
    /\ clRunPc' = IF p = "consul" THEN "start_nomad" ELSE "watch_consul"
    /\ UNCHANGED <<allRest, clSigPc, proc, extStop, prgErr, watchPc, watchErr, clDone,
                   clEvents, clStopPc, prgSig>>

\* run: c.consul.watch(done), then c.nomad.watch(done): each starts a
\* goroutine that waits for its process.
ClRunWatch(p) ==
    /\ AllRunning /\ clRunPc = "watch_" \o p
    /\ watchPc' = [watchPc EXCEPT ![p] = "waiting"]
    /\ clRunPc' = IF p = "consul" THEN "watch_nomad" ELSE "select"
    /\ UNCHANGED <<allRest, clSigPc, proc, extStop, prgProcess, prgChild, prgErr,
                   watchErr, clDone, clEvents, clStopPc, prgSig>>

\* A process ends, with status 0 or not: on its own, or after the
\* termination request.
PrgExit(p) ==
    /\ AllRunning /\ prgChild[p] = "running"
    /\ prgChild' = [prgChild EXCEPT ![p] = "exited"]
    /\ \E e \in {"nil", "ExitError"} : prgErr' = [prgErr EXCEPT ![p] = e]
    /\ UNCHANGED <<allRest, clSigPc, proc, extStop, clRunPc, prgProcess, watchPc,
                   watchErr, clDone, clEvents, clStopPc, prgSig>>

\* watch's goroutine: err := p.cmd.Wait(). Wait returns when the process
\* has ended, or at once with an error when cmd.Start() had failed.
WatchWait(p) ==
    /\ AllRunning /\ watchPc[p] = "waiting"
    /\ prgChild[p] = "exited" \/ prgProcess[p] = "nil"
    /\ watchErr' = [watchErr EXCEPT
                      ![p] = IF prgProcess[p] = "nil" THEN "other" ELSE prgErr[p]]
    /\ watchPc' = [watchPc EXCEPT ![p] = "sending"]
    /\ UNCHANGED <<allRest, clSigPc, proc, extStop, clRunPc, prgProcess, prgChild,
                   prgErr, clDone, clEvents, clStopPc, prgSig>>

\* watch's goroutine: done <- programExit{err, prg}. The send completes
\* when the buffer of `done` has room.
WatchSend(p) ==
    /\ AllRunning /\ watchPc[p] = "sending"
    /\ Len(clDone) < DoneCap
    /\ clDone' = Append(clDone, <<p, watchErr[p]>>)
    /\ watchPc' = [watchPc EXCEPT ![p] = "done"]
    /\ UNCHANGED <<allRest, clSigPc, proc, extStop, clRunPc, prgProcess, prgChild,
                   prgErr, watchErr, clEvents, clStopPc, prgSig>>

\* A run that receives in a loop.
ClRunRecvDoneLoops ==
    /\ AllRunning /\ clRunPc = "select" /\ clDone # <<>>
    /\ clEvents' = Append(clEvents, Head(clDone))
    /\ clDone' = Tail(clDone)
    /\ UNCHANGED <<allRest, clSigPc, proc, extStop, clRunPc, prgProcess, prgChild,
                   prgErr, watchPc, watchErr, clStopPc, prgSig>>

\* run: case exit := <-done: log the classification, and run returns.
ClRunRecvDone ==
    /\ AllRunning /\ clRunPc = "select" /\ clDone # <<>>
    /\ clEvents' = Append(clEvents, Head(clDone))
    /\ clDone' = Tail(clDone)
    /\ clRunPc' = "returned"
    /\ UNCHANGED <<allRest, clSigPc, proc, extStop, prgProcess, prgChild, prgErr,
                   watchPc, watchErr, clStopPc, prgSig>>

\* The service manager is asked to stop the service: the request reaches
\* service.Run, which waits for it once Start has returned.
ClExternalStop ==
    /\ AllRunning /\ clRunPc # "idle" /\ ~extStop
    /\ extStop' = TRUE
    /\ UNCHANGED <<allRest, proc, allVars>>

\* service.Run: on the stop request it calls Stop, once, and returns.
ClServiceStop ==
    /\ AllRunning /\ extStop /\ clStopPc = "idle"
    /\ clStopPc' = "consul"
    /\ UNCHANGED <<allRest, clSigPc, proc, extStop, clRunPc, prgProcess, prgChild,
                   prgErr, watchPc, watchErr, clDone, clEvents, prgSig>>

\* Stop: Process.Kill() or Process.Signal(os.Interrupt) on consul, then on
\* nomad; with cmd.Process still nil the call panics.
ClStopSignal(p) ==
    /\ AllRunning /\ clStopPc = p
    /\ IF prgProcess[p] = "nil"
       THEN proc' = "panic" /\ UNCHANGED prgSig
       ELSE /\ prgSig' = [prgSig EXCEPT ![p] = Terminator(platform)]
            /\ UNCHANGED proc
    /\ clStopPc' = IF p = "consul" THEN "nomad" ELSE "returned"
    /\ UNCHANGED <<allRest, clSigPc, extStop, clRunPc, prgProcess, prgChild, prgErr,
                   watchPc, watchErr, clDone, clEvents>>

\* main: SIGINT or SIGTERM arrives and the goroutine started before s.Run()
\* receives it from sigchan. The goroutine waits from the moment main
\* starts it: before Start, during run, after Stop.
ClSignal ==
    /\ AllRunning /\ clSigPc = "armed"
    /\ clSigPc' = "consul"
    /\ UNCHANGED <<allRest, proc, extStop, clRunPc, prgProcess, prgChild,
                   prgErr, watchPc, watchErr, clDone, clEvents, clStopPc,
                   prgSig>>

\* main's goroutine: clarify.Stop(s), a second caller of Stop next to
\* service.Run: the request goes to consul, then to nomad; with cmd or
\* cmd.Process still nil the call panics.
ClSigStop(p) ==
    /\ AllRunning /\ clSigPc = p
    /\ IF prgProcess[p] = "nil"
       THEN proc' = "panic" /\ UNCHANGED prgSig
       ELSE /\ prgSig' = [prgSig EXCEPT ![p] = Terminator(platform)]
            /\ UNCHANGED proc
    /\ clSigPc' = IF p = "consul" THEN "nomad" ELSE "returned"
    /\ UNCHANGED <<allRest, extStop, clRunPc, prgProcess, prgChild, prgErr,
                   watchPc, watchErr, clDone, clEvents, clStopPc>>

\* main: s.Run() returned after Stop; main returns.
ClMainReturn ==
    /\ AllRunning /\ clStopPc = "returned"
    /\ proc' = "exit0"
    /\ UNCHANGED <<allRest, extStop, allVars>>

\* One service process of the two-process supervisor.
ClarifyAllInit ==
    /\ proc = "running" /\ variant = "clarifysvc_all"
    /\ CoordIdle /\ SupIdle /\ AllIdle
    /\ platform \in {"windows", "posix"}
    /\ install = "present" /\ jobPresent = FALSE /\ nodeDrain = FALSE

ClarifyAllNext ==
    \/ ClStart
    \/ \E p \in Programs :
         \/ ClRunCmdStart(p) \/ ClRunWatch(p) \/ PrgExit(p)
         \/ WatchWait(p) \/ WatchSend(p) \/ ClStopSignal(p) \/ ClSigStop(p)
    \/ ClRunRecvDone
    \/ ClExternalStop \/ ClServiceStop \/ ClMainReturn \/ ClSignal

\* The steps of run, of each watcher, of Stop and of main.
ClRunSteps ==
    \/ ClStart \/ ClRunRecvDone
    \/ \E p \in Programs : ClRunCmdStart(p) \/ ClRunWatch(p)
WatchSteps(p) == WatchWait(p) \/ WatchSend(p)
ClStopSteps ==
    \/ ClServiceStop \/ ClMainReturn
    \/ \E p \in Programs : ClStopSignal(p)
ClSigSteps == \E p \in Programs : ClSigStop(p)

\* The Go scheduler runs every goroutine that can take a step; the
\* processes and the operator are under no obligation.
ClarifyAllSpec ==
    /\ ClarifyAllInit /\ [][ClarifyAllNext]_vars
    /\ WF_vars(ClRunSteps) /\ WF_vars(ClStopSteps) /\ WF_vars(ClSigSteps)
    /\ \A p \in Programs : WF_vars(WatchSteps(p))

TypeOK ==
    /\ variant \in Variants \cup SupVariants \cup {"clarifysvc_all"}
    /\ proc \in {"running", "exit0", "exit1", "panic"}
    /\ install \in {"absent", "present", "inaccessible"}
    /\ jobPresent \in BOOLEAN /\ nodeDrain \in BOOLEAN
    /\ runPc \in {"idle", "wfi_stat", "wfi_select", "wfi_return", "findjob",
                  "node", "disable_drain", "launch", "polljob", "select",
                  "stopped_branch", "exit_branch", "returned"}
    /\ waitPc \in {"none", "select", "send_true", "send_false", "done"}
    /\ pollPc \in {"none", "select", "findjob", "fire1", "hostid", "fire2"}
    /\ stopPc \in {"idle", "signal_exit", "node", "drain", "returned"}
    /\ wTickerOn \in BOOLEAN /\ pTickerOn \in BOOLEAN
    /\ wTickBuf \in 0..1 /\ pTickBuf \in 0..1
    /\ wTicks \in 0..MaxTicks /\ pTicks \in 0..MaxTicks
    /\ exitCloses \in 0..2 /\ stoppedCloses \in 0..2 /\ fires \in 0..2
    /\ doneClosed \in BOOLEAN
    /\ foundState \in {"none", "open", "closed"}
    /\ extStop \in BOOLEAN /\ svcStopReq \in BOOLEAN
    /\ stopResult \in {"none", "nil", "err"}
    /\ wfiResult \in {"none", "true", "false"}
    /\ disc \in {"none", "found", "missing"}
    /\ discDrain \in {"unknown", "drained", "undrained"}
    /\ drainCalls \subseteq (BOOLEAN \X StatusOutcomes)
    /\ lastJob \in {"none", "found", "notfound"}
    /\ lastHost \in {"none", "ok", "drained", "err"}
    /\ envFault \in BOOLEAN
    /\ firstStat \in {"none", "found", "notfound"}
    /\ runLookups \in 0..1 /\ cancelAbsent \in BOOLEAN
    /\ foundSends \in 0..1
    /\ lookupFail \subseteq {"ReconcilingDrain", "Draining"}
    /\ launchOutcome \in {"none"} \cup StatusOutcomes
    /\ jobChecks \in 0..MaxTicks /\ hostChecks \in 0..MaxTicks
    /\ platform \in {"windows", "posix"}
    /\ cmdProcess \in {"nil", "set"}
    /\ child \in {"none", "running", "exited"}
    /\ childErr \in {"none", "nil", "ExitError"}
    /\ supRunPc \in {"idle", "start", "wait", "select", "exiting", "returned"}
    /\ waiterPc \in {"none", "waiting", "done"}
    /\ doneBuf \in {"empty", "nil", "ExitError", "other"}
    /\ supStopPc \in {"idle", "close_exit", "signal", "returned"}
    /\ sigSent \in {"none", "interrupt", "kill"}
    /\ classified \subseteq {"ExitedWithError", "ExitedGraceful",
                              "StoppedByRequest"}
    /\ stopFirst \in BOOLEAN
    /\ clRunPc \in {"idle", "start_consul", "start_nomad", "watch_consul",
                    "watch_nomad", "select", "returned"}
    /\ prgProcess \in [Programs -> {"nil", "set"}]
    /\ prgChild \in [Programs -> {"none", "running", "exited"}]
    /\ prgErr \in [Programs -> {"none", "nil", "ExitError"}]
    /\ watchPc \in [Programs -> {"none", "waiting", "sending", "done"}]
    /\ watchErr \in [Programs -> {"none", "nil", "ExitError", "other"}]
    /\ prgSig \in [Programs -> {"none", "interrupt", "kill"}]
    /\ Len(clDone) <= DoneCap /\ Len(clEvents) <= 1
    /\ clStopPc \in {"idle", "consul", "nomad", "returned"}
    /\ clSigPc \in {"none", "armed", "consul", "nomad", "returned"}
    /\ supSigPc \in {"none", "armed", "stop", "returned"}

----------------------------------------------------------------------------
(* Properties.                                                             *)

\* C1: in one run the poller delivers its terminal signal `stopped` at most
\* once, whatever FindJob and HostID return and however many ticks follow;
\* `stopped` is never closed twice.
C1_TerminalSignalAtMostOnce == fires <= 1 /\ stoppedCloses <= 1

\* C2: the supervisor reports one exit classification per run, and once
\* Stop has signalled the stop while the child was still running the run
\* never reports ExitedGraceful or ExitedWithError (the branch that logs a
\* process exit and calls os.Exit).
C2_StopFirstIsStoppedByRequest ==
    /\ Cardinality(classified) <= 1
    /\ stopFirst =>
         classified \cap {"ExitedWithError", "ExitedGraceful"} = {}

\* C3: a HostID error in the poller is transient: the step that gets it
\* neither stops the ticker nor raises the terminal signal, and leaves the
\* poller waiting for the next tick.
C3_HostErrorIsTransient ==
    [][(pollPc = "hostid" /\ pollPc' # "hostid" /\ lastHost' = "err")
         => (pTickerOn' = pTickerOn /\ fires' = fires /\ pollPc' = "select")]_vars

\* C4: when Stop is called while run is in Polling and no liveness check
\* has failed for a cause of the environment, run never takes the
\* "unexpectedly ended" branch, and Stop returns nil only after a
\* Drain(enable=true) that returned OK.
C4_StopDuringPolling ==
    (stopPhase = "Polling" /\ ~envFault)
      => /\ "UnexpectedlyEnded" \notin phases
         /\ stopResult = "nil" => <<TRUE, "ok">> \in drainCalls

\* C5: when the poller's FindJob reports the job missing and nobody asked
\* for a stop, the process ends only after the terminal signal fired and run
\* took the "unexpectedly ended" branch, and it ends with status 1. (A run
\* that a panic ended is left out: it does not end with status 0 either.)
C5_JobLostExitsNonZero ==
    (lastJob = "notfound" /\ ~extStop /\ proc \notin {"running", "panic"})
      => (fires >= 1 /\ "UnexpectedlyEnded" \in phases /\ proc = "exit1")

\* C6: p.exit is closed at most once in a run, whichever of the external
\* stop, the stop that run asks for through p.svc.Stop() and the child's
\* exit comes first.
C6_ExitClosedAtMostOnce == exitCloses <= 1

\* C6 witness: the external stop and run's p.svc.Stop() were both
\* requested, and p.exit was closed.
C6_Witness ==
    variant = "part_000" /\ extStop /\ svcStopReq /\ exitCloses = 1

\* C7: when the stop signal is given to a waiting waitForInstall while the
\* install directory is absent, waitForInstall returns false.
C7_CancelReturnsFalse ==
    (cancelAbsent /\ wfiResult # "none") => wfiResult = "false"

\* C8: when the install directory exists at the first check, waitForInstall
\* returns true with no polling goroutine, no ticker, no `found` channel
\* and no tick.
C8_FoundAtFirstCheck ==
    firstStat = "found"
      => /\ wfiResult = "true"
         /\ waitPc = "none" /\ foundState = "none"
         /\ ~wTickerOn /\ wTicks = 0 /\ wTickBuf = 0
         /\ ~cancelAbsent

\* C8 witness: the first check found the directory and run went on to
\* discovery.
C8_Witness ==
    firstStat = "found" /\ wfiResult = "true" /\ runPc = "findjob"

\* C9: with the job found and the node drained at discovery, a
\* Drain(enable=false) call has been issued by the time run starts the
\* poller.
C9_DrainDisabledBeforePolling ==
    ((runPc = "polljob" \/ "Polling" \in phases)
       /\ disc = "found" /\ discDrain = "drained")
      => \E o \in StatusOutcomes : <<FALSE, o>> \in drainCalls

\* C9 witness: the poller runs after a discovery that found the job on a
\* drained node.
C9_Witness ==
    pollPc = "select" /\ disc = "found" /\ discDrain = "drained"

\* C10: with the job missing at discovery, run reaches Polling through
\* Launching alone: never ReconcilingDrain, no node() lookup, no
\* Drain(enable=false).
C10_LaunchPathSkipsReconcile ==
    ((runPc = "polljob" \/ "Polling" \in phases) /\ disc = "missing")
      => /\ "Launching" \in phases
         /\ "ReconcilingDrain" \notin phases
         /\ runLookups = 0 /\ discDrain = "unknown"
         /\ \A o \in StatusOutcomes : <<FALSE, o>> \notin drainCalls

\* C10 witness: the poller runs after a discovery that missed the job and a
\* submission that returned OK.
C10_Witness ==
    pollPc = "select" /\ disc = "missing" /\ jobPresent

\* C11: in the poller a HostID that returns the node with Drain == true is
\* definitive: the step that gets it stops the ticker and raises the
\* terminal signal.
C11_DrainedIsDefinitive ==
    [][(pollPc = "hostid" /\ pollPc' # "hostid" /\ lastHost' = "drained")
         => (pollPc' = "fire2" /\ ~pTickerOn')]_vars

\* C12: a Drain(enable=true) of Stop that returns an error or a status other
\* than OK does not hold the shutdown back: Stop has returned, with an
\* error, and the run is Stopped.
C12_FailedDrainStillStops ==
    (\E o \in {"non200", "err"} : <<TRUE, o>> \in drainCalls)
      => (stopPc = "returned" /\ stopResult = "err" /\ "Stopped" \in phases)

\* C12 witness: the drain-enable failed and the process ended with main's
\* return.
C12_Witness ==
    <<TRUE, "err">> \in drainCalls /\ stopResult = "err" /\ proc = "exit0"

\* C13: when node() has no node to return, at discovery or in Stop, the
\* process has exited with status 1 and the Drain call the node was looked
\* up for is never issued.
C13_LookupFailureIsFatal ==
    /\ lookupFail # {} => proc = "exit1"
    /\ "ReconcilingDrain" \in lookupFail
         => \A o \in StatusOutcomes : <<FALSE, o>> \notin drainCalls
    /\ "Draining" \in lookupFail
         => \A o \in StatusOutcomes : <<TRUE, o>> \notin drainCalls

\* C13 witness: the lookup of Stop failed during Polling and the process
\* exited.
C13_Witness ==
    lookupFail = {"Draining"} /\ stopPhase = "Polling" /\ proc = "exit1"

\* C14: when SubmitJob returns an error or a status other than OK, the
\* process has exited with status 1 and the poller was never started.
C14_SubmitFailureIsFatal ==
    launchOutcome \in {"non200", "err"}
      => (proc = "exit1" /\ runPc = "launch" /\ pollPc = "none"
          /\ "Polling" \notin phases)

\* C14 witness: the submission returned a status other than OK and the
\* process exited.
C14_Witness == launchOutcome = "non200" /\ proc = "exit1"

\* C15: when waitForInstall returned false, run makes no FindJob, no
\* SubmitJob, no node() lookup and no Drain(enable=false), never starts the
\* poller, and returns.
C15_WaitFalseAbortsRun ==
    wfiResult = "false"
      => /\ runPc \in {"wfi_return", "returned"}
         /\ disc = "none" /\ launchOutcome = "none" /\ runLookups = 0
         /\ \A o \in StatusOutcomes : <<FALSE, o>> \notin drainCalls
         /\ pollPc = "none" /\ ~pTickerOn /\ jobChecks = 0 /\ hostChecks = 0
         /\ phases \cap {"Discovering", "Launching", "ReconcilingDrain",
                         "Polling"} = {}

\* C15 witness: waitForInstall returned false and run returned after
\* logging "clarify install not available".
C15_Witness ==
    wfiResult = "false" /\ runPc = "returned" /\ "Aborted" \in phases

\* C16: a supervisor whose cmd.Start() failed never reports that the
\* process exited gracefully.
C16_LaunchFailureNotGraceful ==
    (cmdProcess = "nil" /\ supRunPc \notin {"idle", "start"})
      => "ExitedGraceful" \notin classified

\* C17: when the child ended with no stop requested, the supervisor reports
\* no classification but ExitedWithError for an *exec.ExitError from
\* cmd.Wait() and ExitedGraceful for nil, and the process does not end
\* without that one report.
C17_ExitClassification ==
    (~extStop /\ child = "exited")
      => LET class == IF childErr = "ExitError" THEN "ExitedWithError"
                                                ELSE "ExitedGraceful"
         IN  /\ classified \subseteq {class}
             /\ ~Running => classified = {class}

\* C17 witness: the child ended with a non-zero status, nobody asked for a
\* stop, and the supervisor reported ExitedWithError.
C17_Witness ==
    /\ ~extStop /\ child = "exited" /\ childErr = "ExitError"
    /\ classified = {"ExitedWithError"}

\* Stop is signalling p.exit: it is blocked in its send (clarifysvc.go), or
\* it has closed the channel (part_000).
StopSignalling ==
    \/ variant = "clarifysvc" /\ stopPc = "signal_exit"
    \/ variant = "part_000" /\ exitCloses >= 1

\* C18: under fair scheduling a Stop that has been called gets past
\* signalling p.exit or the process ends, and a run that waits in its final
\* select while Stop signals p.exit can observe it: the step in which run
\* receives from p.exit is enabled, run does not wait on the poller alone.
C18_StopObserved ==
    /\ (stopPc = "signal_exit") ~> (stopPc # "signal_exit" \/ ~Running)
    /\ []((Running /\ runPc = "select" /\ StopSignalling)
            => ENABLED StopSendExitToRun)

\* C19: once the terminal signal has fired the ticker is stopped and the
\* poller makes no further FindJob or HostID check.
C19_NoCheckAfterFire ==
    [][fires >= 1
         => /\ ~pTickerOn
            /\ (jobChecks' = jobChecks /\ hostChecks' = hostChecks)]_vars

\* C20: the poller's HostID check of a tick comes after the FindJob check
\* of that tick: at the HostID check one more FindJob than HostID has been
\* made, and between ticks as many.
C20_JobCheckBeforeDrainCheck ==
    /\ hostChecks <= jobChecks
    /\ pollPc \in {"fire1", "hostid"} => jobChecks = hostChecks + 1
    /\ pollPc \in {"none", "select", "findjob", "fire2"}
         => jobChecks = hostChecks

\* C20 witness: two ticks were handled, each with both checks.
C20_Witness == pollPc = "select" /\ jobChecks = 2 /\ hostChecks = 2

\* C21: once run has ended through the stop request (it took the case of
\* p.exit and closed `done`), the poller ends too: it is not blocked in a
\* send on `stopped` that nobody will receive, it makes no further FindJob
\* or HostID call, and the step in which it receives from the closed `done`
\* takes it out of its loop.
C21_PollerEndsAfterStop ==
    [][doneClosed
         => /\ pollPc \notin {"fire1", "fire2"}
            /\ jobChecks' = jobChecks /\ hostChecks' = hostChecks
            /\ (pollPc = "select" /\ pTickerOn /\ ~pTickerOn')
                  => pollPc' # "select"]_vars

\* C22: whenever the supervisor's Stop executes its termination request
\* (Process.Kill or Process.Signal), cmd.Process has been set by
\* cmd.Start(): for the Stop that service.Run calls and for the Stop that
\* main's signal goroutine calls.
C22_StopHandleSet ==
    [][/\ (supStopPc = "signal" /\ supStopPc' # "signal") => cmdProcess = "set"
       /\ (supSigPc = "stop" /\ supSigPc' # "stop") => cmdProcess = "set"]_vars

\* C23: a run that found the job on a drained node starts the poller only
\* after a Drain(enable=false) that returned OK.
C23_DrainClearedBeforePolling ==
    ((runPc = "polljob" \/ "Polling" \in phases)
       /\ disc = "found" /\ discDrain = "drained")
      => <<FALSE, "ok">> \in drainCalls

\* C25: in a call of waitForInstall `found` carries one value: the polling
\* goroutine sends once and returns, it never waits to send on the closed
\* channel, and the deferred close comes after run received the value.
C25_FoundCarriesOneValue ==
    /\ foundSends <= 1
    /\ waitPc \in {"send_true", "send_false"} => foundState = "open"
    /\ waitPc = "done" => foundSends = 1
    /\ foundState = "closed"
         => (foundSends = 1 /\ waitPc = "done" /\ wfiResult # "none")

\* C25 witness: after a tick that did not find the directory the wait was
\* cancelled, the one value was received and `found` was closed.
C25_Witness ==
    /\ wTicks >= 1 /\ wfiResult = "false"
    /\ foundState = "closed" /\ foundSends = 1

\* C24: in the two-process supervisor run receives one exit event from
\* `done`, never a second, and under fair scheduling a watcher that has its
\* event to send gets the send done (or the process ends first), in
\* whichever order the two processes end.
C24_OneEventNoBlockedWatcher ==
    /\ [](Len(clEvents) <= 1 /\ Len(clDone) <= DoneCap)
    /\ [](clRunPc = "returned" => Len(clEvents) = 1)
    /\ \A p \in Programs :
         (watchPc[p] = "sending") ~> (watchPc[p] = "done" \/ ~Running)

\* C24 witness: both processes ended, nomad first; run received nomad's
\* event and consul's watcher completed its send after that.
C24_Witness ==
    /\ \A p \in Programs : prgChild[p] = "exited" /\ watchPc[p] = "done"
    /\ Len(clEvents) = 1 /\ clEvents[1][1] = "nomad"
    /\ Len(clDone) = 1 /\ clDone[1][1] = "consul"
    /\ clRunPc = "returned"

====
